---------------------------- MODULE Spec2Model ----------------------------
(***************************************************************************)
(* uuidkey: the Key codec (UUID <-> Base32-Crockford text) and the         *)
(* compound APIKey format (prefix, key, entropy, CRC32 checksum).          *)
(*                                                                         *)
(* A JavaScript string is modelled as the sequence of its UTF-16 code      *)
(* units (naturals); a Buffer as the sequence of its bytes.  JavaScript    *)
(* index i is TLA+ index i + 1.  A thrown Error is modelled by its         *)
(* message; the empty message "" means that nothing was thrown.            *)
(***************************************************************************)
EXTENDS Integers, Sequences, FiniteSets, TLC

VARIABLES
    op,             \* the last operation the caller invoked
    text,           \* its string argument (key text, UUID text, compound key)
    prefix,         \* the prefix argument of newAPIKey / newAPIKeyFromBytes
    bytes,          \* the Buffer argument of newAPIKeyFromBytes
    flag,           \* the withHyphens argument of Key.encode
    opt,            \* the Option argument ("" when it was not passed)
    hash,           \* the SHA-256 digest drawn inside generateEntropy
    key,            \* the Key object the call returned or acted on
    apiKey,         \* the APIKey object the call returned or acted on
    from,           \* the operation that constructed that object
    base,           \* the accepted compound key a substituted one derives from
    ret,            \* the string the call returned (toUUID, toString)
    err,            \* the message of the Error the call threw, or ""
    DefaultConfig,  \* the module-level DefaultConfig object of types.ts
    optionsUsed     \* history: the non-default Options passed to the calls so far

vars == <<op, text, prefix, bytes, flag, opt, hash, key, apiKey, from, base,
          ret, err, DefaultConfig, optionsUsed>>

(***************************************************************************)
(* types.ts                                                                *)
(***************************************************************************)
KEY_LENGTH_WITH_HYPHENS == 31
KEY_LENGTH_WITHOUT_HYPHENS == 28
KEY_PART_LENGTH == 7
UUID_LENGTH == 36
CHECKSUM_LENGTH == 8
Bits128 == 14
Bits160 == 21
Bits256 == 42

(***************************************************************************)
(* String primitives of the JavaScript runtime.                            *)
(***************************************************************************)
Min(a, b) == IF a < b THEN a ELSE b

\* s.slice(a, b) for 0 <= a, 0 <= b: the code units a .. b-1, clamped.
Slice(s, a, b) == SubSeq(s, Min(a, Len(s)) + 1, Min(b, Len(s)))

\* s.slice(a) / s.substring(a) for 0 <= a.
SliceFrom(s, a) == SubSeq(s, Min(a, Len(s)) + 1, Len(s))

\* One code unit through toUpperCase / toLowerCase (the ASCII letters; the
\* other code units of this model have no case mapping).
UpperUnit(c) == IF c >= 97 /\ c <= 122 THEN c - 32 ELSE c
LowerUnit(c) == IF c >= 65 /\ c <= 90 THEN c + 32 ELSE c
toUpperCase(s) == [i \in 1..Len(s) |-> UpperUnit(s[i])]
toLowerCase(s) == [i \in 1..Len(s) |-> LowerUnit(s[i])]

\* A string of n copies of the code unit c.
Repeat(c, n) == [i \in 1..n |-> c]

\* s.padStart(n, c) for a one-unit pad string.
padStart(s, n, c) == IF Len(s) >= n THEN s ELSE Repeat(c, n - Len(s)) \o s

\* The number of leading elements of s equal to c.
LeadingCount(s, c) ==
    IF \A i \in 1..Len(s) : s[i] = c THEN Len(s)
    ELSE (CHOOSE i \in 1..Len(s) : s[i] # c /\ \A j \in 1..(i - 1) : s[j] = c) - 1

\* parts.join(sep)
RECURSIVE Join(_, _)
Join(parts, sep) ==
    IF parts = <<>> THEN <<>>
    ELSE IF Len(parts) = 1 THEN parts[1]
    ELSE parts[1] \o sep \o Join(Tail(parts), sep)

\* The value of a hexadecimal digit, -1 for any other code unit.
HexVal(c) ==
    IF c >= 48 /\ c <= 57 THEN c - 48
    ELSE IF c >= 97 /\ c <= 102 THEN c - 87
    ELSE IF c >= 65 /\ c <= 70 THEN c - 55
    ELSE -1

\* The lowercase hexadecimal digits, "0123456789abcdef".
hex == <<48,49,50,51,52,53,54,55,56,57,97,98,99,100,101,102>>

\* Buffer.from(s, 'hex'): one byte per pair of hexadecimal digits, cut at
\* the first pair that is not two hexadecimal digits.
BufferFromHex(s) ==
    LET pairs == Len(s) \div 2
        isHexPair == [k \in 1..pairs |-> HexVal(s[2 * k - 1]) >= 0 /\ HexVal(s[2 * k]) >= 0]
        n == LeadingCount(isHexPair, TRUE)
    IN [k \in 1..n |-> 16 * HexVal(s[2 * k - 1]) + HexVal(s[2 * k])]

\* buf.toString('hex'): two lowercase digits per byte.
BufferToHex(buf) ==
    [i \in 1..(2 * Len(buf)) |->
        IF i % 2 = 1 THEN hex[(buf[(i + 1) \div 2] \div 16) + 1]
        ELSE hex[(buf[i \div 2] % 16) + 1]]

(***************************************************************************)
(* c32check, the Base32-Crockford codec key.ts and apikey.ts import.       *)
(***************************************************************************)
\* The alphabet "0123456789ABCDEFGHJKMNPQRSTVWXYZ".
c32 == <<48,49,50,51,52,53,54,55,56,57,65,66,67,68,69,70,71,72,74,75,77,78,
         80,81,82,83,84,86,87,88,89,90>>

\* c32.indexOf(c), -1 when c is not in the alphabet.
c32IndexOf(c) ==
    IF \E i \in 1..32 : c32[i] = c THEN (CHOOSE i \in 1..32 : c32[i] = c) - 1 ELSE -1

\* c32encode throws 'Not a hex-encoded string' unless its input is hex.
c32encodeThrows(inputHex) == \E i \in 1..Len(inputHex) : HexVal(inputHex[i]) < 0

\* One pass of the digit loop of c32encode, at the hex digit of index i:
\* five bits per c32 digit, carry the number of bits already taken from the
\* current hex digit.  The loop state is <<carry, res>>.
c32encodeStep(inputHex, i, st) ==
    LET carry == st[1]
        res == st[2]
    IN IF carry < 4 THEN
           LET currentCode == HexVal(inputHex[i + 1]) \div (2 ^ carry)
               nextCode == IF i # 0 THEN HexVal(inputHex[i]) ELSE 0
               nextBits == 1 + carry
               nextLowBits == (nextCode % (2 ^ nextBits)) * (2 ^ (5 - nextBits))
               curC32Digit == c32[currentCode + nextLowBits + 1]
           IN <<nextBits, <<curC32Digit>> \o res>>
       ELSE <<0, res>>

\* The digit loop for i from hi down to lo: the upper half of the range,
\* then the lower half from the state the upper half left (the singleton
\* set binds that state before the lower half starts).
RECURSIVE c32encodeLoop(_, _, _, _)
c32encodeLoop(inputHex, lo, hi, st) ==
    IF lo > hi THEN st
    ELSE IF lo = hi THEN c32encodeStep(inputHex, lo, st)
    ELSE LET mid == (lo + hi) \div 2
         IN CHOOSE r \in {c32encodeLoop(inputHex, lo, mid, upper) :
                             upper \in {c32encodeLoop(inputHex, mid + 1, hi, st)}} : TRUE

\* c32encode(inputHex) without minLength: the digits with their leading
\* '0's dropped, then one '0' for every leading zero byte of the input.
c32encode(inputHex) ==
    LET even == IF Len(inputHex) % 2 # 0 THEN <<48>> \o inputHex ELSE inputHex
        lower == toLowerCase(even)
        res == c32encodeLoop(lower, 0, Len(lower) - 1, <<0, <<>>>>)[2]
        C32leadingZeros == LeadingCount(res, 48)
        stripped == SubSeq(res, C32leadingZeros + 1, Len(res))
        numLeadingZeroBytesInHex == LeadingCount(BufferFromHex(lower), 0)
    IN Repeat(48, numLeadingZeroBytesInHex) \o stripped

\* c32normalize: upper case, O to 0, L and I to 1.
c32normalizeUnit(c) ==
    LET u == UpperUnit(c)
    IN IF u = 79 THEN 48 ELSE IF u = 76 \/ u = 73 THEN 49 ELSE u
c32normalize(c32input) == [i \in 1..Len(c32input) |-> c32normalizeUnit(c32input[i])]

\* One pass of the digit loop of c32decode, at the digit of index i of the
\* normalized input.  The loop state is <<carry, carryBits, res, panic>>.
c32decodeStep(c32input, i, st) ==
    LET flush == st[2] = 4
        res1 == IF flush THEN <<hex[st[1] + 1]>> \o st[3] ELSE st[3]
        carryBits1 == IF flush THEN 0 ELSE st[2]
        carry1 == IF flush THEN 0 ELSE st[1]
        currentCode == c32IndexOf(c32input[i + 1]) * (2 ^ carryBits1)
        currentValue == currentCode + carry1
        currentHexDigit == hex[(currentValue % 16) + 1]
        carryBits2 == carryBits1 + 1
        carry2 == currentValue \div 16
    IN IF st[4] THEN st
       ELSE IF carry2 > 2 ^ carryBits2 THEN <<carry2, carryBits2, res1, TRUE>>
       ELSE <<carry2, carryBits2, <<currentHexDigit>> \o res1, FALSE>>

\* The digit loop for i from hi down to lo, by halves as in c32encodeLoop.
RECURSIVE c32decodeLoop(_, _, _, _)
c32decodeLoop(c32input, lo, hi, st) ==
    IF lo > hi THEN st
    ELSE IF lo = hi THEN c32decodeStep(c32input, lo, st)
    ELSE LET mid == (lo + hi) \div 2
         IN CHOOSE r \in {c32decodeLoop(c32input, lo, mid, upper) :
                             upper \in {c32decodeLoop(c32input, mid + 1, hi, st)}} : TRUE

\* c32decode throws when the normalized input has a unit outside the
\* alphabet ('Not a c32-encoded string') or on its internal panic.
c32decodeThrows(c32input) ==
    LET n == c32normalize(c32input)
    IN \/ \E i \in 1..Len(n) : c32IndexOf(n[i]) < 0
       \/ c32decodeLoop(n, 0, Len(n) - 1, <<0, 0, <<>>, FALSE>>)[4]

\* c32decode(c32input) without minLength: the hex digits, made even, with
\* their leading zero bytes dropped, then "00" for every leading '0' of
\* the input.
c32decode(c32input) ==
    LET n == c32normalize(c32input)
        numLeadingZeroBytes == LeadingCount(n, 48)
        loop == c32decodeLoop(n, 0, Len(n) - 1, <<0, 0, <<>>, FALSE>>)
        res0 == <<hex[loop[1] + 1]>> \o loop[3]
        res1 == IF Len(res0) % 2 = 1 THEN <<48>> \o res0 ELSE res0
        hexLeadingZeros == LeadingCount(res1, 48)
        res2 == SliceFrom(res1, hexLeadingZeros - (hexLeadingZeros % 2))
    IN Repeat(48, 2 * numLeadingZeroBytes) \o res2

(***************************************************************************)
(* key.ts: class Key                                                       *)
(***************************************************************************)
\* Key.isValidPart as it would be without the test for 'U'.
isValidPartWithoutU(part) ==
    IF Len(part) # KEY_PART_LENGTH THEN FALSE
    ELSE ~ \E i \in 1..Len(part) :
            LET code == part[i]
            IN \/ code > 90
               \/ (code < 48 \/ (code > 57 /\ code < 65))
               \/ code = 73 \/ code = 76 \/ code = 79

\* Key.isValidPart
isValidPart(part) ==
    IF Len(part) # KEY_PART_LENGTH THEN FALSE
    ELSE ~ \E i \in 1..Len(part) :
            LET code == part[i]
            IN \/ code > 90
               \/ (code < 48 \/ (code > 57 /\ code < 65))
               \/ code = 73 \/ code = 76 \/ code = 79 \/ code = 85

\* Key.isValid
isValid(k) ==
    LET length == Len(k)
    IN IF length = KEY_LENGTH_WITH_HYPHENS THEN
           IF k[8] # 45 \/ k[16] # 45 \/ k[24] # 45 THEN FALSE
           ELSE /\ isValidPart(Slice(k, 0, 7))
                /\ isValidPart(Slice(k, 8, 15))
                /\ isValidPart(Slice(k, 16, 23))
                /\ isValidPart(Slice(k, 24, 31))
       ELSE IF length = KEY_LENGTH_WITHOUT_HYPHENS THEN
           /\ isValidPart(Slice(k, 0, 7))
           /\ isValidPart(Slice(k, 7, 14))
           /\ isValidPart(Slice(k, 14, 21))
           /\ isValidPart(Slice(k, 21, 28))
       ELSE FALSE

\* new Key(value): the message of the Error it throws, "" when it
\* constructs the Key (whose value is then the argument, verbatim).
KeyConstructorError(value) == IF ~isValid(value) THEN "Invalid Key format" ELSE ""

\* Key.parse(key)
KeyParseError(k) == IF ~isValid(k) THEN "Invalid UUID Key" ELSE KeyConstructorError(k)

\* Key.getParts
getParts(value) ==
    LET hasHyphens == Len(value) = KEY_LENGTH_WITH_HYPHENS
    IN IF hasHyphens
       THEN <<Slice(value, 0, 7), Slice(value, 8, 15),
              Slice(value, 16, 23), Slice(value, 24, 31)>>
       ELSE <<Slice(value, 0, 7), Slice(value, 7, 14),
              Slice(value, 14, 21), Slice(value, 21, 28)>>

\* Key.decode
decode(value) ==
    LET parts == getParts(value)
        decoded == [i \in 1..4 |-> c32decode(toLowerCase(parts[i]))]
    IN decoded[1] \o <<45>> \o Slice(decoded[2], 0, 4) \o <<45>>
       \o SliceFrom(decoded[2], 4) \o <<45>> \o Slice(decoded[3], 0, 4)
       \o <<45>> \o SliceFrom(decoded[3], 4) \o decoded[4]

\* Key.toUUID: the message of the Error it throws, or "".
toUUIDError(value) ==
    IF ~isValid(value) THEN "Invalid UUID key"
    ELSE IF \E p \in 1..4 : c32decodeThrows(toLowerCase(getParts(value)[p]))
         THEN "Not a c32-encoded string"
    ELSE ""

\* Key.toUUID: the string it returns.
toUUID(value) == decode(value)

\* Key.encodePart as it would be without padStart.
encodePartUnpadded(h) ==
    LET buf == BufferFromHex(h)
        encoded == c32encode(BufferToHex(buf))
    IN toUpperCase(encoded)

\* Key.encodePart
encodePart(h) ==
    LET buf == BufferFromHex(h)
        encoded == c32encode(BufferToHex(buf))
    IN toUpperCase(padStart(encoded, 7, 48))

\* The four 8-digit groups Key.encode cuts out of the UUID text.
encodeGroups(uuid) ==
    <<Slice(uuid, 0, 8),
      Slice(uuid, 9, 13) \o Slice(uuid, 14, 18),
      Slice(uuid, 19, 23) \o Slice(uuid, 24, 28),
      Slice(uuid, 28, 36)>>

\* Key.encode: the value handed to the constructor.
encodeValue(uuid, withHyphens) ==
    LET groups == encodeGroups(uuid)
        parts == [i \in 1..4 |-> encodePart(groups[i])]
    IN IF withHyphens THEN Join(parts, <<45>>) ELSE Join(parts, <<>>)

\* Key.encode as it would be with "<" for "!==" in its length test.
encodeErrorShortOnly(uuid, withHyphens) ==
    IF Len(uuid) < UUID_LENGTH THEN "Invalid UUID length"
    ELSE IF \E g \in 1..4 :
              c32encodeThrows(BufferToHex(BufferFromHex(encodeGroups(uuid)[g])))
         THEN "Not a hex-encoded string"
    ELSE KeyConstructorError(encodeValue(uuid, withHyphens))

\* Key.encode: the message of the Error it throws, or "".
encodeError(uuid, withHyphens) ==
    IF Len(uuid) # UUID_LENGTH THEN "Invalid UUID length"
    ELSE IF \E g \in 1..4 :
              c32encodeThrows(BufferToHex(BufferFromHex(encodeGroups(uuid)[g])))
         THEN "Not a hex-encoded string"
    ELSE KeyConstructorError(encodeValue(uuid, withHyphens))


(***************************************************************************)
(* crc: crc32 over the UTF-8 bytes of a string.  A 32-bit word is the      *)
(* sequence of its 8 hexadecimal digits (values 0..15), the most           *)
(* significant first.                                                      *)
(***************************************************************************)
\* The concatenation of the sequences items[lo..hi], by halves.
RECURSIVE Flatten(_, _, _)
Flatten(items, lo, hi) ==
    IF lo > hi THEN <<>>
    ELSE IF lo = hi THEN items[lo]
    ELSE LET mid == (lo + hi) \div 2
         IN Flatten(items, lo, mid) \o Flatten(items, mid + 1, hi)

IsHighSurrogate(c) == c >= 55296 /\ c <= 56319
IsLowSurrogate(c) == c >= 56320 /\ c <= 57343

\* The UTF-8 bytes that the code unit at index i of s contributes: a high
\* surrogate with the low surrogate after it gives the four bytes of their
\* code point (and that low surrogate none); a surrogate without a partner
\* gives U+FFFD (EF BF BD).
Utf8Unit(s, i) ==
    LET c == s[i]
    IN IF c < 128 THEN <<c>>
       ELSE IF c < 2048 THEN <<192 + (c \div 64), 128 + (c % 64)>>
       ELSE IF IsHighSurrogate(c) /\ i < Len(s) /\ IsLowSurrogate(s[i + 1]) THEN
           LET cp == 65536 + (c - 55296) * 1024 + (s[i + 1] - 56320)
           IN <<240 + (cp \div 262144), 128 + ((cp \div 4096) % 64),
                128 + ((cp \div 64) % 64), 128 + (cp % 64)>>
       ELSE IF IsLowSurrogate(c) /\ i > 1 /\ IsHighSurrogate(s[i - 1]) THEN <<>>
       ELSE IF IsHighSurrogate(c) \/ IsLowSurrogate(c) THEN <<239, 191, 189>>
       ELSE <<224 + (c \div 4096), 128 + ((c \div 64) % 64), 128 + (c % 64)>>

\* Buffer.from(s): the UTF-8 bytes of a string.
BufferFromString(s) == Flatten([i \in 1..Len(s) |-> Utf8Unit(s, i)], 1, Len(s))

\* The exclusive or of two bits, of two hexadecimal digits, of two words.
RECURSIVE XorBits(_, _, _)
XorBits(a, b, n) ==
    IF n = 0 THEN 0
    ELSE ((a + b) % 2) + 2 * XorBits(a \div 2, b \div 2, n - 1)
XorDigit == [a \in 0..15 |-> [b \in 0..15 |-> XorBits(a, b, 4)]]
XorWord(a, b) ==
    <<XorDigit[a[1]][b[1]], XorDigit[a[2]][b[2]], XorDigit[a[3]][b[3]],
      XorDigit[a[4]][b[4]], XorDigit[a[5]][b[5]], XorDigit[a[6]][b[6]],
      XorDigit[a[7]][b[7]], XorDigit[a[8]][b[8]]>>

\* w >>> 1 and w >>> 8
ShiftRight1(w) ==
    <<w[1] \div 2,
      (w[2] \div 2) + 8 * (w[1] % 2), (w[3] \div 2) + 8 * (w[2] % 2),
      (w[4] \div 2) + 8 * (w[3] % 2), (w[5] \div 2) + 8 * (w[4] % 2),
      (w[6] \div 2) + 8 * (w[5] % 2), (w[7] \div 2) + 8 * (w[6] % 2),
      (w[8] \div 2) + 8 * (w[7] % 2)>>
ShiftRight8(w) == <<0, 0, w[1], w[2], w[3], w[4], w[5], w[6]>>

\* The reflected CRC-32 polynomial 0xEDB88320, and 0xFFFFFFFF (-1).
CrcPoly == <<14, 13, 11, 8, 8, 3, 2, 0>>
AllOnes == <<15, 15, 15, 15, 15, 15, 15, 15>>

\* The entry of the crc32 lookup table for one byte: eight shift steps.
RECURSIVE CrcTableEntry(_, _)
CrcTableEntry(w, n) ==
    IF n = 0 THEN w
    ELSE CrcTableEntry(IF w[8] % 2 = 1 THEN XorWord(CrcPoly, ShiftRight1(w))
                       ELSE ShiftRight1(w), n - 1)
TABLE ==
    [b \in 0..255 |-> CrcTableEntry(<<0, 0, 0, 0, 0, 0, b \div 16, b % 16>>, 8)]

\* One step of the byte loop: crc = TABLE[(crc ^ byte) & 0xff] ^ (crc >>> 8).
crc32Step(crc, byte) ==
    LET low == 16 * XorDigit[crc[7]][byte \div 16] + XorDigit[crc[8]][byte % 16]
    IN XorWord(TABLE[low], ShiftRight8(crc))

\* The byte loop over buf[lo..hi], in order: the first half of the range,
\* then the second half from the value the first half left (the singleton
\* set binds that value before the second half starts).
RECURSIVE crc32Loop(_, _, _, _)
crc32Loop(buf, lo, hi, crc) ==
    IF lo > hi THEN crc
    ELSE IF lo = hi THEN crc32Step(crc, buf[lo])
    ELSE LET mid == (lo + hi) \div 2
         IN CHOOSE r \in {crc32Loop(buf, mid + 1, hi, left) :
                             left \in {crc32Loop(buf, lo, mid, crc)}} : TRUE

\* crc32(data) for a string: the unsigned 32-bit CRC of its UTF-8 bytes.
crc32(data) ==
    LET buf == BufferFromString(data)
    IN XorWord(crc32Loop(buf, 1, Len(buf), AllOnes), AllOnes)

\* n.toString(16) for an unsigned 32-bit n: no leading zeros, "0" for zero.
NumberToString16(w) ==
    LET z == LeadingCount(w, 0)
        digits == IF z = 8 THEN <<0>> ELSE SubSeq(w, z + 1, 8)
    IN [i \in 1..Len(digits) |-> hex[digits[i] + 1]]

(***************************************************************************)
(* apikey.ts                                                               *)
(***************************************************************************)
\* No APIKey object.
NoAPIKey == [prefix |-> <<>>, key |-> <<>>, entropy |-> <<>>, checksum |-> <<>>]

\* calculateChecksum as it would be with the entropy left out of the data.
calculateChecksumWithoutEntropy(p, k, e) ==
    LET data == p \o <<95>> \o k
        checksum == crc32(data)
    IN padStart(toUpperCase(NumberToString16(checksum)), 8, 48)

\* calculateChecksum, of the fields it reads.
calculateChecksum(p, k, e) ==
    LET data == p \o <<95>> \o k \o e
        checksum == crc32(data)
    IN padStart(toUpperCase(NumberToString16(checksum)), 8, 48)

\* new APIKey(prefix, key, entropy, checksum): an empty checksum is computed.
APIKeyConstructor(p, k, e, c) ==
    [prefix |-> p, key |-> k, entropy |-> e,
     checksum |-> IF c # <<>> THEN c ELSE calculateChecksum(p, k, e)]

\* APIKey.toString
APIKeyToString(a) == a.prefix \o <<95>> \o a.key \o a.entropy \o <<95>> \o a.checksum

\* Options: the write the option function o makes to the Config object c it
\* is called on.  An option that was not passed ("") is the default
\* parameter, With160BitEntropy.
OptionWrite(o, c) ==
    LET given == IF o = "" THEN "With160BitEntropy" ELSE o
    IN IF given = "With128BitEntropy" THEN [c EXCEPT !.entropySize = Bits128]
       ELSE IF given = "With160BitEntropy" THEN [c EXCEPT !.entropySize = Bits160]
       ELSE [c EXCEPT !.entropySize = Bits256]

\* applyOptions as it would be with "const config = DefaultConfig": config
\* and DefaultConfig are one object, and the option writes to it.
applyOptionsShared(o, defaultConfig) ==
    [config |-> OptionWrite(o, defaultConfig),
     DefaultConfig |-> OptionWrite(o, defaultConfig)]

\* applyOptions, of the two objects it handles: { ...DefaultConfig } is a new
\* object with the fields of DefaultConfig, and the option writes to that
\* object only.  The record holds both objects as the call leaves them.
applyOptionsObjects(o, defaultConfig) ==
    LET config == defaultConfig
    IN [config |-> OptionWrite(o, config), DefaultConfig |-> defaultConfig]

\* applyOptions: the Config it returns.
applyOptions(o, defaultConfig) == applyOptionsObjects(o, defaultConfig).config

\* encodeBase32Crockford
encodeBase32Crockford(buffer) == toUpperCase(c32encode(BufferToHex(buffer)))

\* generateEntropy(size), h the SHA-256 digest of the random bytes it drew.
generateEntropy(size, h) == Slice(encodeBase32Crockford(h), 0, size)

\* newAPIKey: the message of the Error it throws, or "".
newAPIKeyError(p, uuid, o) ==
    IF p = <<>> THEN "prefix cannot be empty" ELSE encodeError(uuid, FALSE)

\* newAPIKey: the APIKey it returns.
newAPIKey(p, uuid, o, h, defaultConfig) ==
    LET config == applyOptions(o, defaultConfig)
        k == encodeValue(uuid, FALSE)
        entropy == generateEntropy(config.entropySize, h)
    IN APIKeyConstructor(p, k, entropy, <<>>)

\* newAPIKey: the DefaultConfig object as the call leaves it.  The call that
\* throws for its prefix does not reach applyOptions; every other call does,
\* before Key.encode can throw.
newAPIKeyDefaultConfig(p, o, defaultConfig) ==
    IF p = <<>> THEN defaultConfig
    ELSE applyOptionsObjects(o, defaultConfig).DefaultConfig

\* formatUUID
formatUUID(buffer) ==
    LET h == BufferToHex(buffer)
    IN Join(<<Slice(h, 0, 8), Slice(h, 8, 12), Slice(h, 12, 16),
              Slice(h, 16, 20), SliceFrom(h, 20)>>, <<45>>)

\* newAPIKeyFromBytes: the message of the Error it throws, or "".
newAPIKeyFromBytesError(p, uuid, o) ==
    IF Len(uuid) # 16 THEN "UUID must be exactly 16 bytes"
    ELSE newAPIKeyError(p, formatUUID(uuid), o)

\* newAPIKeyFromBytes: the APIKey it returns.
newAPIKeyFromBytes(p, uuid, o, h, defaultConfig) ==
    newAPIKey(p, formatUUID(uuid), o, h, defaultConfig)

\* newAPIKeyFromBytes: the DefaultConfig object as the call leaves it.
newAPIKeyFromBytesDefaultConfig(p, uuid, o, defaultConfig) ==
    IF Len(uuid) # 16 THEN defaultConfig
    ELSE newAPIKeyDefaultConfig(p, o, defaultConfig)

\* isValidChecksum: 8 units, each of [0-9A-F].
isValidChecksum(checksum) ==
    IF Len(checksum) # CHECKSUM_LENGTH THEN FALSE
    ELSE \A i \in 1..Len(checksum) :
            \/ (checksum[i] >= 48 /\ checksum[i] <= 57)
            \/ (checksum[i] >= 65 /\ checksum[i] <= 70)

\* s.split('_'): the pieces between the k-th and the k+1-th "_".
Split(s) ==
    LET at == {i \in 1..Len(s) : s[i] = 95}
        nth(k) == IF k = 0 THEN 0
                  ELSE IF k > Cardinality(at) THEN Len(s) + 1
                  ELSE CHOOSE i \in at : Cardinality({j \in at : j < i}) = k - 1
    IN [k \in 1..(Cardinality(at) + 1) |-> SubSeq(s, nth(k - 1) + 1, nth(k) - 1)]

\* parse: the APIKey it builds from the three parts.
parseAPIKey(parts) ==
    LET remainder == parts[2]
        keyPart == Slice(remainder, 0, KEY_LENGTH_WITHOUT_HYPHENS)
        entropy == SliceFrom(remainder, KEY_LENGTH_WITHOUT_HYPHENS)
    IN APIKeyConstructor(parts[1], keyPart, entropy, parts[3])

\* parse as it would be without the comparison with the recomputed checksum.
parseErrorUnverified(apikey) ==
    IF apikey = <<>> THEN "invalid APIKey format"
    ELSE
        LET parts == Split(apikey)
        IN IF Len(parts) # 3 THEN "invalid APIKey format: expected 3 parts"
           ELSE IF parts[1] = <<>> THEN "invalid prefix: cannot be empty"
           ELSE IF Len(parts[2]) < KEY_LENGTH_WITHOUT_HYPHENS
                THEN "invalid Key format: insufficient length"
           ELSE IF ~isValidChecksum(parts[3])
                THEN "invalid checksum format: must be 8 hexadecimal characters"
           ELSE KeyParseError(Slice(parts[2], 0, KEY_LENGTH_WITHOUT_HYPHENS))

\* parse as it would be with the checksum format tested before the length
\* of the second part.
parseErrorFormatFirst(apikey) ==
    IF apikey = <<>> THEN "invalid APIKey format"
    ELSE
        LET parts == Split(apikey)
        IN IF Len(parts) # 3 THEN "invalid APIKey format: expected 3 parts"
           ELSE IF parts[1] = <<>> THEN "invalid prefix: cannot be empty"
           ELSE IF ~isValidChecksum(parts[3])
                THEN "invalid checksum format: must be 8 hexadecimal characters"
           ELSE IF Len(parts[2]) < KEY_LENGTH_WITHOUT_HYPHENS
                THEN "invalid Key format: insufficient length"
           ELSE IF KeyParseError(Slice(parts[2], 0, KEY_LENGTH_WITHOUT_HYPHENS)) # ""
                THEN KeyParseError(Slice(parts[2], 0, KEY_LENGTH_WITHOUT_HYPHENS))
           ELSE
               LET a == parseAPIKey(parts)
                   expectedChecksum == calculateChecksum(a.prefix, a.key, a.entropy)
               IN IF parts[3] # expectedChecksum THEN "invalid checksum" ELSE ""

\* parse: the message of the Error it throws (its constant text, without
\* the interpolated counts and checksums), or "".
parseError(apikey) ==
    IF apikey = <<>> THEN "invalid APIKey format"
    ELSE
        LET parts == Split(apikey)
        IN IF Len(parts) # 3 THEN "invalid APIKey format: expected 3 parts"
           ELSE IF parts[1] = <<>> THEN "invalid prefix: cannot be empty"
           ELSE IF Len(parts[2]) < KEY_LENGTH_WITHOUT_HYPHENS
                THEN "invalid Key format: insufficient length"
           ELSE IF ~isValidChecksum(parts[3])
                THEN "invalid checksum format: must be 8 hexadecimal characters"
           ELSE IF KeyParseError(Slice(parts[2], 0, KEY_LENGTH_WITHOUT_HYPHENS)) # ""
                THEN KeyParseError(Slice(parts[2], 0, KEY_LENGTH_WITHOUT_HYPHENS))
           ELSE
               LET a == parseAPIKey(parts)
                   expectedChecksum == calculateChecksum(a.prefix, a.key, a.entropy)
               IN IF parts[3] # expectedChecksum THEN "invalid checksum" ELSE ""

\* parse: the APIKey it returns.
parse(apikey) == parseAPIKey(Split(apikey))


(***************************************************************************)
(* The inputs the caller draws from.                                       *)
(***************************************************************************)
\* The longest prefix built from PrefixUnits.
MaxPrefixLen == 2
\* The longest accepted compound key whose single-unit substitutions are parsed.
MaxSubstLen == 40

\* "d1756360-5da0-40df-9926-a76abff5601d", the UUID of the tests
UuidTest == <<100,49,55,53,54,51,54,48,45,53,100,97,48,45,52,48,100,102,45,57,57,50,54,45,97,55,54,97,98,102,102,53,54,48,49,100>>
\* "0193a5b2-7c1e-7f00-8a3b-00ff12345678", groups that start with zero bits
UuidV7 == <<48,49,57,51,97,53,98,50,45,55,99,49,101,45,55,102,48,48,45,56,97,51,98,45,48,48,102,102,49,50,51,52,53,54,55,56>>
\* "00000000-0000-0000-0000-000000000000"
UuidNil == <<48,48,48,48,48,48,48,48,45,48,48,48,48,45,48,48,48,48,45,48,48,48,48,45,48,48,48,48,48,48,48,48,48,48,48,48>>
\* "FFFFFFFF-FFFF-4FFF-BFFF-FFFFFFFFFFFF", upper-case digits
UuidUpper == <<70,70,70,70,70,70,70,70,45,70,70,70,70,45,52,70,70,70,45,66,70,70,70,45,70,70,70,70,70,70,70,70,70,70,70,70>>
\* "d1756360-5da0-40df-9926-a76abff5601", 35 units (the test's invalid UUID)
UuidShort == <<100,49,55,53,54,51,54,48,45,53,100,97,48,45,52,48,100,102,45,57,57,50,54,45,97,55,54,97,98,102,102,53,54,48,49>>
\* "zzzzzzzz-zzzz-zzzz-zzzz-zzzzzzzzzzzz", 36 units, no hexadecimal digit
UuidNotHex == <<122,122,122,122,122,122,122,122,45,122,122,122,122,45,122,122,122,122,45,122,122,122,122,45,122,122,122,122,122,122,122,122,122,122,122,122>>
\* "d17563605-da0-40df-9926-a76abff5601d", 36 units, a hyphen misplaced
UuidMisplaced == <<100,49,55,53,54,51,54,48,53,45,100,97,48,45,52,48,100,102,45,57,57,50,54,45,97,55,54,97,98,102,102,53,54,48,49,100>>

UuidInputs ==
    {UuidTest, UuidV7, UuidNil, UuidUpper, UuidShort, UuidNotHex, UuidMisplaced,
     UuidTest \o <<100>>, <<>>}

\* Key segments: "38QARV0", "0000000", "00S79DJ", "ZZZZZZZ", "38qarv0",
\* "38QARVI", "38QARVL", "38QARVO", "38QARVU", "38QARV[", "38QARV:", "38QARV/",
\* "38QARV-", "38QARV", "38QARV00".
SegmentInputs ==
    {<<51,56,81,65,82,86,48>>, <<48,48,48,48,48,48,48>>, <<48,48,83,55,57,68,74>>, <<90,90,90,90,90,90,90>>,
     <<51,56,113,97,114,118,48>>, <<51,56,81,65,82,86,73>>, <<51,56,81,65,82,86,76>>,
     <<51,56,81,65,82,86,79>>, <<51,56,81,65,82,86,85>>, <<51,56,81,65,82,86,91>>,
     <<51,56,81,65,82,86,58>>, <<51,56,81,65,82,86,47>>, <<51,56,81,65,82,86,45>>,
     <<51,56,81,65,82,86>>, <<51,56,81,65,82,86,48,48>>}

\* The other three segments of the tests' key: "1ET0G6Z", "2CJD9VA", "2ZZAR0X".
RestSegments == <<<<49,69,84,48,71,54,90>>, <<50,67,74,68,57,86,65>>, <<50,90,90,65,82,48,88>>>>
\* "38QARV01ET0G6Z2CJD9VA2ZZAR0X", the tests' key
KeyTest == <<51,56,81,65,82,86,48,49,69,84,48,71,54,90,50,67,74,68,57,86,65,50,90,90,65,82,48,88>>

\* Key texts: a segment of SegmentInputs in the first or in the last place,
\* with "-" or "" or "_" between the segments; the tests' 29-unit wrong key.
KeyInputs ==
    {Join(<<g>> \o RestSegments, sep) : g \in SegmentInputs, sep \in {<<>>, <<45>>, <<32>>}}
    \cup {Join(RestSegments \o <<g>>, sep) : g \in SegmentInputs, sep \in {<<>>, <<45>>}}
    \cup {KeyTest \o <<90>>, <<>>}

\* Prefixes: every string of at most MaxPrefixLen units of "A" and "_";
\* "MYPREFIX"; and a lone high surrogate.
PrefixUnits == {65, 95}
RECURSIVE StringsUpTo(_, _)
StringsUpTo(units, n) ==
    IF n = 0 THEN {<<>>}
    ELSE LET shorter == StringsUpTo(units, n - 1)
         IN shorter \cup {Append(t, u) : t \in shorter, u \in units}
PrefixInputs ==
    StringsUpTo(PrefixUnits, MaxPrefixLen) \cup {<<77,89,80,82,69,70,73,88>>, <<55296>>}

\* The UUID texts handed to newAPIKey.
APIKeyUuidInputs == {UuidTest, UuidV7, UuidNotHex, UuidShort}

\* The Options of types.ts, and "" for a call that passes none.
OptionInputs == {"", "With128BitEntropy", "With160BitEntropy", "With256BitEntropy"}

\* The Options that select another entropy size than the default one.
NonDefaultOptions == {"With128BitEntropy", "With256BitEntropy"}

\* SHA-256 digests: z zero bytes, then the byte b repeated.
Digest(z, b) == Repeat(0, z) \o Repeat(b, 32 - z)
HashInputs == {Digest(0, 255), Digest(0, 1), Digest(17, 255), Digest(32, 0)}

\* Buffers: the 16 bytes of a UUID, 15 bytes, and the 4 bytes the test's
\* Buffer.from(uuid text, 'hex') yields.
BytesInputs ==
    {BufferFromHex(encodeGroups(u)[1] \o encodeGroups(u)[2]
                   \o encodeGroups(u)[3] \o encodeGroups(u)[4]) :
        u \in {UuidTest, UuidV7, UuidNil}}
    \cup {Repeat(171, 15), BufferFromHex(UuidTest)}

\* "MYPREFIX_38QARV01ET0G6Z2CJD9VA2ZZAR0XSMJP4AMEEWHGZDCGDDBBF_86887EAC",
\* the compound key of the README
KeyReadme ==
    <<77,89,80,82,69,70,73,88,95,
      51,56,81,65,82,86,48,49,69,84,48,71,54,90,50,67,74,68,57,86,65,50,90,90,65,82,48,88,83,77,74,80,52,65,77,69,69,87,72,71,90,68,67,71,68,68,66,66,70,95,56,54,56,56,55,69,65,67>>
\* "MYPREFIX_38QARV01ET0G6Z2CJD9VA2ZZAR0XVNBP1HX5VMAJDWWHK7TZJ_E4809599",
\* the compound key the tests parse
KeyParseTest ==
    <<77,89,80,82,69,70,73,88,95,
      51,56,81,65,82,86,48,49,69,84,48,71,54,90,50,67,74,68,57,86,65,50,90,90,65,82,48,88,86,78,66,80,49,72,88,53,86,77,65,74,68,87,87,72,75,55,84,90,74,95,69,52,56,48,57,53,57,57>>

\* Compound keys: prefix "_" remainder "_" checksum, the checksum the right
\* one or "00000000", "E480952332", "e4809599"; and strings of other shapes.
ParsePrefixInputs == {<<>>, <<65>>, <<55296>>}
ParseRemainderInputs ==
    {KeyTest, KeyTest \o <<90>>, Join(RestSegments \o <<<<51,56,81,65,82,86,73>>>>, <<>>),
     <<51,56,81,65,82,86,48>>}
ParseChecksumInputs(p, r) ==
    {calculateChecksum(p, Slice(r, 0, 28), SliceFrom(r, 28)),
     <<48,48,48,48,48,48,48,48>>, <<69,52,56,48,57,53,50,51,51,50>>, <<101,52,56,48,57,53,57,57>>}
ParseInputs ==
    {p \o <<95>> \o r \o <<95>> \o c :
        p \in ParsePrefixInputs, r \in ParseRemainderInputs,
        c \in UNION {ParseChecksumInputs(p2, r2) :
                        p2 \in ParsePrefixInputs, r2 \in ParseRemainderInputs}}
    \cup {KeyReadme, KeyParseTest, <<>>, <<65>>, <<65, 95, 66>>, <<95, 95>>,
          <<65, 95>> \o KeyTest \o <<95>> \o <<48,48,48,48,48,48,48,48>> \o <<95, 66>>}

\* The code units a substitution puts in: "0", "A", "F", "_", a lone surrogate.
SubstUnits == {48, 65, 70, 95, 55297}

(***************************************************************************)
(* The caller: one action per call of the library.  A call that takes its *)
(* arguments from the caller starts from "init"; toUUID, toString and the  *)
(* parse of a returned or substituted string follow the call they use.     *)
(***************************************************************************)
Init ==
    /\ op = "init"
    /\ text = <<>>
    /\ prefix = <<>>
    /\ bytes = <<>>
    /\ flag = FALSE
    /\ opt = ""
    /\ hash = <<>>
    /\ key = <<>>
    /\ apiKey = NoAPIKey
    /\ from = ""
    /\ base = <<>>
    /\ ret = <<>>
    /\ err = ""
    /\ DefaultConfig = [hyphens |-> TRUE, entropySize |-> Bits160]
    /\ optionsUsed = {}

\* const k = new Key(s)
NewKey(s) ==
    /\ op = "init"
    /\ op' = "Key"
    /\ text' = s
    /\ err' = KeyConstructorError(s)
    /\ key' = IF KeyConstructorError(s) = "" THEN s ELSE <<>>
    /\ from' = "Key"
    /\ prefix' = <<>> /\ bytes' = <<>> /\ flag' = FALSE /\ opt' = "" /\ hash' = <<>>
    /\ apiKey' = NoAPIKey /\ base' = <<>> /\ ret' = <<>>
    /\ UNCHANGED <<DefaultConfig, optionsUsed>>

\* const k = Key.encode(uuid, withHyphens)
Encode(uuid, withHyphens) ==
    /\ op = "init"
    /\ op' = "encode"
    /\ text' = uuid
    /\ flag' = withHyphens
    /\ err' = encodeError(uuid, withHyphens)
    /\ key' = IF encodeError(uuid, withHyphens) = ""
              THEN encodeValue(uuid, withHyphens) ELSE <<>>
    /\ from' = "encode"
    /\ prefix' = <<>> /\ bytes' = <<>> /\ opt' = "" /\ hash' = <<>>
    /\ apiKey' = NoAPIKey /\ base' = <<>> /\ ret' = <<>>
    /\ UNCHANGED <<DefaultConfig, optionsUsed>>

\* k.toUUID() on the Key the last call constructed
ToUUID ==
    /\ op \in {"Key", "encode"}
    /\ err = ""
    /\ op' = "toUUID"
    /\ err' = toUUIDError(key)
    /\ ret' = IF toUUIDError(key) = "" THEN toUUID(key) ELSE <<>>
    /\ UNCHANGED <<text, prefix, bytes, flag, opt, hash, key, apiKey, from, base,
                   DefaultConfig, optionsUsed>>

\* const a = newAPIKey(p, uuid, o); h is the digest generateEntropy draws
NewAPIKey(p, uuid, o, h) ==
    /\ op = "init"
    /\ op' = "newAPIKey"
    /\ prefix' = p
    /\ text' = uuid
    /\ opt' = o
    /\ err' = newAPIKeyError(p, uuid, o)
    /\ hash' = IF newAPIKeyError(p, uuid, o) = "" THEN h ELSE <<>>
    /\ apiKey' = IF newAPIKeyError(p, uuid, o) = ""
                 THEN newAPIKey(p, uuid, o, h, DefaultConfig) ELSE NoAPIKey
    /\ from' = "newAPIKey"
    /\ bytes' = <<>> /\ flag' = FALSE /\ key' = <<>> /\ base' = <<>> /\ ret' = <<>>
    /\ DefaultConfig' = newAPIKeyDefaultConfig(p, o, DefaultConfig)
    /\ optionsUsed' = optionsUsed \cup ({o} \cap NonDefaultOptions)

\* const a = newAPIKeyFromBytes(p, uuid, o)
NewAPIKeyFromBytes(p, uuid, o, h) ==
    /\ op = "init"
    /\ op' = "newAPIKeyFromBytes"
    /\ prefix' = p
    /\ bytes' = uuid
    /\ opt' = o
    /\ err' = newAPIKeyFromBytesError(p, uuid, o)
    /\ hash' = IF newAPIKeyFromBytesError(p, uuid, o) = "" THEN h ELSE <<>>
    /\ apiKey' = IF newAPIKeyFromBytesError(p, uuid, o) = ""
                 THEN newAPIKeyFromBytes(p, uuid, o, h, DefaultConfig) ELSE NoAPIKey
    /\ from' = "newAPIKeyFromBytes"
    /\ text' = <<>> /\ flag' = FALSE /\ key' = <<>> /\ base' = <<>> /\ ret' = <<>>
    /\ DefaultConfig' = newAPIKeyFromBytesDefaultConfig(p, uuid, o, DefaultConfig)
    /\ optionsUsed' = optionsUsed \cup ({o} \cap NonDefaultOptions)

\* a.toString() on the APIKey the last call returned
CallToString ==
    /\ op \in {"newAPIKey", "newAPIKeyFromBytes", "parse"}
    /\ err = ""
    /\ op' = "toString"
    /\ ret' = APIKeyToString(apiKey)
    /\ err' = ""
    /\ text' = <<>> /\ bytes' = <<>> /\ hash' = <<>> /\ opt' = "" /\ prefix' = <<>>
    /\ UNCHANGED <<flag, key, apiKey, from, base, DefaultConfig, optionsUsed>>

\* The state after parse(s); f tells where s came from, b the accepted
\* compound key it was derived from.
Parsed(s, f, b) ==
    /\ op' = "parse"
    /\ text' = s
    /\ err' = parseError(s)
    /\ apiKey' = IF parseError(s) = "" THEN parse(s) ELSE NoAPIKey
    /\ from' = f
    /\ base' = b
    /\ prefix' = <<>> /\ bytes' = <<>> /\ flag' = FALSE /\ opt' = "" /\ hash' = <<>>
    /\ key' = <<>> /\ ret' = <<>>
    /\ UNCHANGED <<DefaultConfig, optionsUsed>>

\* parse(s) of a string the caller holds
Parse(s) ==
    /\ op = "init"
    /\ Parsed(s, "parse", <<>>)

\* parse(a.toString()): the string the last toString returned
ParseReturned ==
    /\ op = "toString"
    /\ Parsed(ret, from, <<>>)

\* parse(s'), s' an accepted compound key with the unit at index i replaced by c
ParseSubstituted(i, c) ==
    /\ op = "parse"
    /\ err = ""
    /\ from # "substitution"
    /\ Len(text) <= MaxSubstLen
    /\ i \in 1..Len(text)
    /\ text[i] # c
    /\ Parsed([text EXCEPT ![i] = c], "substitution", text)

\* The caller drops what the last call returned and is ready for another.
Discard ==
    /\ op # "init"
    /\ op' = "init"
    /\ text' = <<>> /\ prefix' = <<>> /\ bytes' = <<>> /\ flag' = FALSE /\ opt' = ""
    /\ hash' = <<>> /\ key' = <<>> /\ apiKey' = NoAPIKey /\ from' = "" /\ base' = <<>>
    /\ ret' = <<>> /\ err' = ""
    /\ UNCHANGED <<DefaultConfig, optionsUsed>>

Next ==
    \/ \E s \in KeyInputs : NewKey(s)
    \/ \E uuid \in UuidInputs, withHyphens \in BOOLEAN : Encode(uuid, withHyphens)
    \/ ToUUID
    \/ \E p \in PrefixInputs, uuid \in APIKeyUuidInputs, o \in OptionInputs,
          h \in HashInputs :
          NewAPIKey(p, uuid, o, h)
    \/ \E p \in PrefixInputs, b \in BytesInputs, o \in OptionInputs, h \in HashInputs :
          NewAPIKeyFromBytes(p, b, o, h)
    \/ CallToString
    \/ \E s \in ParseInputs : Parse(s)
    \/ ParseReturned
    \/ \E i \in 1..MaxSubstLen, c \in SubstUnits : ParseSubstituted(i, c)
    \/ Discard

Spec == Init /\ [][Next]_vars


(***************************************************************************)
(* Vocabulary of the properties.                                           *)
(***************************************************************************)
\* The code units of 0-9, of A-F and a-f, and of the Crockford digits.
DigitUnits == 48..57
HexUnits == DigitUnits \cup (65..70) \cup (97..102)
CrockfordUpperUnits == (DigitUnits \cup (65..90)) \ {73, 76, 79, 85}
CrockfordAnyCaseUnits == CrockfordUpperUnits \cup {c + 32 : c \in CrockfordUpperUnits \ DigitUnits}

\* Canonical hyphenated UUID text: 36 units, "-" at the JavaScript indices
\* 8, 13, 18 and 23, hexadecimal digits elsewhere.
IsCanonicalUUID(u) ==
    /\ Len(u) = 36
    /\ \A i \in 1..36 : IF i \in {9, 14, 19, 24} THEN u[i] = 45 ELSE u[i] \in HexUnits

\* Key text: 28 units of the given digits, or 31 units with "-" at the
\* JavaScript indices 7, 15 and 23 and the given digits elsewhere.
IsKeyText(k, units) ==
    \/ Len(k) = 28 /\ \A i \in 1..28 : k[i] \in units
    \/ Len(k) = 31 /\ \A i \in 1..31 :
           IF i \in {8, 16, 24} THEN k[i] = 45 ELSE k[i] \in units

\* An APIKey object is held.
HasAPIKey == op \in {"newAPIKey", "newAPIKeyFromBytes", "parse"} /\ err = ""

\* Every code unit of s is ASCII.
IsAscii(s) == \A i \in 1..Len(s) : s[i] < 128

(***************************************************************************)
(* C1: Key.encode(u, withHyphens).toUUID() returns u, compared without     *)
(* case, for every canonical UUID text u and both values of withHyphens,   *)
(* groups with leading zero bits or bytes included.                        *)
(***************************************************************************)
C1_RoundTrip ==
    (op = "toUUID" /\ from = "encode" /\ IsCanonicalUUID(text))
        => (err = "" /\ toLowerCase(ret) = toLowerCase(text))

(***************************************************************************)
(* C2: for every canonical UUID text, Key.encode(u, false) has 28 units    *)
(* and Key.encode(u, true) has 31 with "-" at indices 7, 15 and 23 and     *)
(* nowhere else; every segment is 7 upper-case Crockford digits.           *)
(***************************************************************************)
C2_FixedWidth ==
    (op = "encode" /\ IsCanonicalUUID(text))
        => /\ err = ""
           /\ Len(key) = IF flag THEN 31 ELSE 28
           /\ IsKeyText(key, CrockfordUpperUnits)

\* An all-zero UUID was encoded with hyphens: every segment is padding.
C2_Witness == op = "encode" /\ text = UuidNil /\ flag /\ err = "" /\ Len(key) = 31

C4_ChecksumInvariant ==
    HasAPIKey
        => /\ apiKey.checksum = calculateChecksum(apiKey.prefix, apiKey.key, apiKey.entropy)
           /\ Len(apiKey.checksum) = 8
           /\ \A i \in 1..Len(apiKey.checksum) :
                  apiKey.checksum[i] \in DigitUnits \cup (65..70)

\* parse returned the APIKey of the README, whose checksum is 86887EAC.
C4_Witness == op = "parse" /\ err = "" /\ text = KeyReadme /\ apiKey.prefix = SubSeq(KeyReadme, 1, 8)

(***************************************************************************)
(* C5: for every k = newAPIKey(prefix, uuid, option) that succeeds,        *)
(* parse(k.toString()) succeeds and its toString() is k.toString(); and    *)
(* for every string s that parse accepts, parse(s).toString() = s.         *)
(***************************************************************************)
C5_ParseRoundTrip ==
    /\ (op = "parse" /\ from = "newAPIKey") => (err = "" /\ APIKeyToString(apiKey) = text)
    /\ (op = "parse" /\ err = "") => APIKeyToString(apiKey) = text

(***************************************************************************)
(* C6: parse reports the first check that fails, in the order: empty       *)
(* input, part count, empty prefix, second part shorter than 28, checksum  *)
(* format, key format of the first 28 units, checksum mismatch; when all   *)
(* pass, key is the first 28 units of part 2 and entropy the rest.         *)
(***************************************************************************)
\* The indices of the "_" of s, and the index of the first and of the last.
UnderscoresOf(s) == {i \in 1..Len(s) : s[i] = 95}
FirstUnderscore(s) == CHOOSE i \in UnderscoresOf(s) : \A j \in UnderscoresOf(s) : i <= j
LastUnderscore(s) == CHOOSE i \in UnderscoresOf(s) : \A j \in UnderscoresOf(s) : j <= i

\* The number (1..7) of the first check of the claim's order that s fails,
\* 0 when it passes all seven.
FirstFailedCheck(s) ==
    IF Len(s) = 0 THEN 1
    ELSE IF Cardinality(UnderscoresOf(s)) # 2 THEN 2
    ELSE LET a == FirstUnderscore(s)
             b == LastUnderscore(s)
             sum == SubSeq(s, b + 1, Len(s))
         IN IF a = 1 THEN 3
            ELSE IF b - a - 1 < 28 THEN 4
            ELSE IF ~(Len(sum) = 8 /\ \A i \in 1..Len(sum) : sum[i] \in DigitUnits \cup (65..70))
                 THEN 5
            ELSE IF \E i \in (a + 1)..(a + 28) : s[i] \notin CrockfordUpperUnits THEN 6
            ELSE IF sum # calculateChecksum(SubSeq(s, 1, a - 1), SubSeq(s, a + 1, a + 28),
                                            SubSeq(s, a + 29, b - 1))
                 THEN 7
            ELSE 0

\* The check each error message of parse reports.
CheckOfError(e) ==
    CASE e = "" -> 0
      [] e = "invalid APIKey format" -> 1
      [] e = "invalid APIKey format: expected 3 parts" -> 2
      [] e = "invalid prefix: cannot be empty" -> 3
      [] e = "invalid Key format: insufficient length" -> 4
      [] e = "invalid checksum format: must be 8 hexadecimal characters" -> 5
      [] e = "Invalid UUID Key" -> 6
      [] e = "invalid checksum" -> 7
      [] OTHER -> 8

C6_CheckOrder ==
    op = "parse"
        => /\ CheckOfError(err) = FirstFailedCheck(text)
           /\ err = "" =>
                LET a == FirstUnderscore(text)
                    b == LastUnderscore(text)
                IN /\ apiKey.prefix = SubSeq(text, 1, a - 1)
                   /\ apiKey.key = SubSeq(text, a + 1, a + 28)
                   /\ apiKey.entropy = SubSeq(text, a + 29, b - 1)
                   /\ apiKey.checksum = SubSeq(text, b + 1, Len(text))

\* A string that fails the length check, the checksum format check and
\* more was reported for the earliest of them, the length check.
C6_Witness ==
    /\ op = "parse"
    /\ err = "invalid Key format: insufficient length"
    /\ Cardinality(UnderscoresOf(text)) = 2
    /\ Len(text) - LastUnderscore(text) # 8

(***************************************************************************)
(* C7 as claimed: no string obtained from an accepted compound key by      *)
(* replacing the unit at one position with a different unit is accepted.   *)
(***************************************************************************)
C7_AnySubstitution == (op = "parse" /\ from = "substitution") => err # ""

(***************************************************************************)
(* C7 as amended: when the accepted compound key and the string obtained   *)
(* from it by replacing the unit at one position with a different unit     *)
(* are both ASCII, parse rejects the substituted string.                   *)
(***************************************************************************)
C7_AsciiSubstitution ==
    (op = "parse" /\ from = "substitution" /\ IsAscii(base) /\ IsAscii(text))
        => err # ""

\* An ASCII substitution inside the key or entropy of an accepted ASCII
\* compound key reached the checksum comparison and failed it.
C7_Witness ==
    /\ op = "parse" /\ from = "substitution"
    /\ IsAscii(base) /\ IsAscii(text)
    /\ err = "invalid checksum"

(***************************************************************************)
(* C8: whatever digest the hash returns, the entropy of an APIKey made by  *)
(* newAPIKey has 14 units with the 128-bit option, 21 with the 160-bit     *)
(* option or with none, 42 with the 256-bit option, all of them            *)
(* upper-case Crockford digits.                                            *)
(***************************************************************************)
C8_EntropyLength ==
    (op = "newAPIKey" /\ err = "")
        => /\ Len(apiKey.entropy) =
                  CASE opt = "With128BitEntropy" -> 14
                    [] opt = "With256BitEntropy" -> 42
                    [] OTHER -> 21
           /\ \A i \in 1..Len(apiKey.entropy) : apiKey.entropy[i] \in CrockfordUpperUnits

(***************************************************************************)
(* C9: Key.encode throws the invalid-UUID-length error exactly when its    *)
(* argument does not have 36 units; for every argument of 36 units, also   *)
(* with units that are no hexadecimal digits or with misplaced hyphens,    *)
(* it returns a Key and throws nothing.                                    *)
(***************************************************************************)
C9_EncodeErrors ==
    op = "encode"
        => /\ (err = "Invalid UUID length") <=> (Len(text) # 36)
           /\ Len(text) = 36 => (err = "" /\ isValid(key))

\* A 36-unit argument without any hexadecimal digit was encoded.
C9_Witness == op = "encode" /\ text = UuidNotHex /\ err = "" /\ key # <<>>

(***************************************************************************)
(* C10: for every string accepted by new Key(s), toUUID() does not fail    *)
(* and returns canonical UUID text (36 units, "-" at indices 8, 13, 18,    *)
(* 23, hexadecimal digits elsewhere); the 31-unit and the 28-unit form of  *)
(* the same four segments decode to the same text.                         *)
(***************************************************************************)
C10_CanonicalUUID ==
    (op = "toUUID" /\ from = "Key")
        => /\ err = ""
           /\ IsCanonicalUUID(ret)
           /\ Len(key) = 31 => ret = toUUID(Join(getParts(key), <<>>))

(***************************************************************************)
(* C11: after any sequence of newAPIKey, newAPIKeyFromBytes and parse      *)
(* calls with any options, successful or failing, DefaultConfig is         *)
(* hyphens = true, entropySize = Bits160; the entropy of a call is cut to  *)
(* the size of the call's own option, whatever options the earlier calls   *)
(* passed, and a call without an option yields 21 units of entropy.        *)
(***************************************************************************)
\* The entropy size the option o of a call selects by itself.
OwnEntropySize(o) ==
    CASE o = "With128BitEntropy" -> 14
      [] o = "With256BitEntropy" -> 42
      [] OTHER -> 21

C11_DefaultConfigUnchanged ==
    /\ DefaultConfig = [hyphens |-> TRUE, entropySize |-> 21]
    /\ (op \in {"newAPIKey", "newAPIKeyFromBytes"} /\ err = "")
          => /\ apiKey.entropy = generateEntropy(OwnEntropySize(opt), hash)
             /\ opt = "" => Len(apiKey.entropy) = 21

\* A call without an option succeeded after earlier calls had passed the
\* 128-bit and the 256-bit option.
C11_Witness ==
    /\ op = "newAPIKey" /\ err = "" /\ opt = ""
    /\ optionsUsed = {"With128BitEntropy", "With256BitEntropy"}
    /\ Len(apiKey.entropy) = 21

=============================================================================
